---- MODULE Spec2Model ----
(***************************************************************************)
(* Model of bot.py: a Telegram bot that turns a YouTube link into an       *)
(* inline keyboard of quality choices and, on a selection, downloads the   *)
(* chosen format with yt-dlp and sends it back as a video.                 *)
(*                                                                         *)
(* Strings the code splits, joins or pattern-matches (message texts, URLs, *)
(* format ids, callback payloads) are sequences of one-character strings.  *)
(* Fixed notices are plain strings; the emoji that open some of them are   *)
(* written [X] (U+274C) and [DL] (U+1F4E5).                                *)
(***************************************************************************)
EXTENDS Integers, Sequences, FiniteSets, TLC

VARIABLES
    pc,           \* position of the process: load_env, check_internet, main, polling, stopped, exited
    BOT_TOKEN,    \* os.getenv("BOT_TOKEN") once read
    exitCode,     \* argument of sys.exit once pc = "exited"
    netRequests,  \* number of requests.get calls made by check_internet
    online,       \* how check_internet ended: "unchecked", "True", "False" or "SystemExit"
    handled,      \* number of inbound updates dispatched by the polling loop
    last,         \* the latest update and everything its handler did, in order
    issued,       \* callback_data of every button of every keyboard sent so far
    downloads,    \* per callback payload: number of download calls started for it
    files,        \* paths present in the downloads directory
    threads,      \* per worker thread: the callback_query call it runs and how far it is
    content       \* per path of the downloads directory: whose bytes the file holds

vars == <<pc, BOT_TOKEN, exitCode, netRequests, online, handled, last, issued, downloads, files,
          threads, content>>

----------------------------------------------------------------------------
(* Bounds of the model *)

MaxEvents == 3        \* updates handled in one run
MaxLinkFormats == 1   \* length of the engine's format list in the full machine
MaxFormats == 6       \* length of the engine's format list in the resolver/presenter check
MaxUrlTail == 40      \* characters after "https://www.youtube.com/" in the payload-size check

----------------------------------------------------------------------------
(* Character-sequence helpers *)

StartsWith(s, p) == Len(s) >= Len(p) /\ SubSeq(s, 1, Len(p)) = p

Drop(s, n) == SubSeq(s, n + 1, Len(s))

Min(a, b) == IF a <= b THEN a ELSE b

Chars_http == <<"h","t","t","p",":","/","/">>
Chars_https == <<"h","t","t","p","s",":","/","/">>
Chars_www == <<"w","w","w",".">>
Chars_youtube_com == <<"y","o","u","t","u","b","e",".","c","o","m">>
Chars_youtu_be == <<"y","o","u","t","u",".","b","e">>
Chars_youtube == <<"y","o","u","t","u","b","e">>
Chars_start == <<"/","s","t","a","r","t">>
Chars_stop == <<"/","s","t","o","p">>

Sep == "|"

----------------------------------------------------------------------------
(* Inputs *)

Chats == {1, 2}

\* Text messages a user may send.
Text_short == Chars_youtu_be \o <<"/","a">>
Text_long == Chars_https \o Chars_www \o Chars_youtube_com \o <<"/","w">>
Text_pipe == Chars_http \o Chars_youtube \o <<"/","a","|","b">>
Text_notail == Chars_youtu_be \o <<"/">>
Text_unanchored == <<"x">> \o Chars_youtu_be \o <<"/","a">>
Text_hello == <<"h","i">>
Text_start == Chars_start
Text_stop == Chars_stop
Text_stopnow == Chars_stop \o <<" ","n","o","w">>

Texts == {Text_short, Text_long, Text_pipe, Text_notail, Text_unanchored,
          Text_hello, Text_start, Text_stop, Text_stopnow}

\* Format dictionaries the extraction engine may report.  A key the engine
\* leaves out is a key missing from the record; a height is written as the
\* digits the button label shows.
Fmt_av == [format_id |-> <<"1","8">>, vcodec |-> "avc1", acodec |-> "mp4a", ext |-> "mp4"]
Fmt_audio == [format_id |-> <<"1","4","0">>, vcodec |-> "none", acodec |-> "mp4a", ext |-> "m4a"]
Fmt_video == [format_id |-> <<"1","3","7">>, vcodec |-> "avc1", acodec |-> "none", height |-> "1080", ext |-> "mp4"]
Fmt_noacodec == [format_id |-> <<"9","3">>, vcodec |-> "avc1", height |-> "360", ext |-> "mp4"]
Fmt_pipe == [format_id |-> <<"h","|","1">>, vcodec |-> "vp9", acodec |-> "opus", height |-> "720", ext |-> "webm"]

Formats == {Fmt_av, Fmt_audio, Fmt_video, Fmt_noacodec}

\* The formats the full machine draws from.
LinkFormats == {Fmt_av, Fmt_audio, Fmt_pipe}

SeqsUpTo(S, n) == UNION {[1..k -> S] : k \in 0..n}

\* What ydl.extract_info(url, download=False) may do: raise, or return an
\* info dictionary (with or without its 'formats' and 'title' keys).
InfosOver(lists) ==
    {[formats |-> fs, title |-> "Demo"] : fs \in lists}
        \cup {[title |-> "Demo"], [formats |-> <<Fmt_av>>]}

Raise == [raise |-> TRUE]

Raised(outcome) == "raise" \in DOMAIN outcome

EngineInfos == {Raise} \cup InfosOver(SeqsUpTo(LinkFormats, MaxLinkFormats))

WideInfos == InfosOver(SeqsUpTo(Formats, MaxFormats))

\* What ydl.extract_info(url, download=True) + prepare_filename may do:
\* raise, or return a path, having written the file there or not.
Paths == {"downloads/Demo.mp4", "downloads/Demo.webm"}

DownloadOutcomes == {Raise} \cup [path : Paths, written : BOOLEAN]

\* The worker threads that run handlers, a thread that runs none, and a file
\* nobody has written.
Threads == {1, 2}

Idle == [at |-> "idle", chat |-> 0, data |-> <<>>, path |-> "None", sent |-> [by |-> 0, complete |-> FALSE],
         log |-> <<>>]

NoContent == [by |-> 0, complete |-> FALSE]

UploadOutcomes == {"ok", "raise"}

\* Callback payloads that no keyboard of this bot carries.
Data_bad == <<"b","a","d">>
Data_three == <<"1","8","|","a","|","b">>
Data_foreign == <<"2","2","|","u">>

StrayData == {Data_bad, Data_three, Data_foreign}

----------------------------------------------------------------------------
(* dict.get *)

Get(d, k, default) == IF k \in DOMAIN d THEN d[k] ELSE default

----------------------------------------------------------------------------
(* is_youtube_link: re.match of                                            *)
(*   (https?://)?(www\.)?(youtube\.com|youtu\.?be)/.+                      *)
(* anchored at the start of the text only.  Each *Rests operator is the    *)
(* set of remainders the regex engine can be left with after one group,    *)
(* so the existential below is the engine's backtracking.                  *)

SchemeRests(s) ==
    {s} \cup {Drop(s, Len(p)) : p \in {q \in {Chars_http, Chars_https} : StartsWith(s, q)}}

WwwRests(s) ==
    {s} \cup {Drop(s, Len(p)) : p \in {q \in {Chars_www} : StartsWith(s, q)}}

HostRests(s) ==
    {Drop(s, Len(p)) : p \in {q \in {Chars_youtube_com, Chars_youtu_be, Chars_youtube} : StartsWith(s, q)}}

TailMatches(s) == Len(s) >= 2 /\ s[1] = "/" /\ s[2] /= "\n"

is_youtube_link(text) ==
    \E a \in SchemeRests(text) : \E b \in WwwRests(a) : \E c \in HostRests(b) : TailMatches(c)

\* A filter that accepts every text.
LinkFilter_Any(text) == TRUE

\* The filter of receive_video_link: func=lambda message: is_youtube_link(message.text)
LinkFilter(text) == is_youtube_link(text)

\* commands=[name]: the first word of the text is the command.
IsCommand(text, cmd) == text = cmd \/ StartsWith(text, cmd \o <<" ">>)

----------------------------------------------------------------------------
(* str.split('|') and the f-string that builds callback_data *)

RECURSIVE Split(_)
Split(s) ==
    IF \A i \in 1..Len(s) : s[i] /= Sep
    THEN <<s>>
    ELSE LET i == CHOOSE j \in 1..Len(s) : s[j] = Sep /\ \A k \in 1..(j - 1) : s[k] /= Sep
         IN  <<SubSeq(s, 1, i - 1)>> \o Split(Drop(s, i))

\* The two fields joined in the wrong order.
callback_data_Swapped(format_id, url) == url \o <<Sep>> \o format_id

callback_data(format_id, url) == format_id \o <<Sep>> \o url

HasSep(s) == \E i \in 1..Len(s) : s[i] = Sep

----------------------------------------------------------------------------
(* extract_formats *)

\* The filter with "or" in place of "and".
HasBoth_Either(f) == Get(f, "vcodec", "None") /= "none" \/ Get(f, "acodec", "None") /= "none"

HasBoth(f) == Get(f, "vcodec", "None") /= "none" /\ Get(f, "acodec", "None") /= "none"

valid_formats(formats) == SelectSeq(formats, HasBoth)

\* The pair extract_formats returns; (None, None) is [none |-> TRUE].
extract_formats(engine) ==
    IF Raised(engine)
    THEN [none |-> TRUE]
    ELSE [none |-> FALSE,
          formats |-> valid_formats(Get(engine, "formats", <<>>)),
          title |-> Get(engine, "title", "video")]

\* A test for None alone, which lets the empty list through.
NotFormats_NoneOnly(res) == res.none

\* "not formats": None and the empty list are both falsy.
NotFormats(res) == res.none \/ res.formats = <<>>

----------------------------------------------------------------------------
(* Outbound calls and engine calls, as entries of last.log *)

ReplyTo(chat, msg, text) == [op |-> "reply_to", chat |-> chat, to |-> msg, text |-> text]

SendMessage(chat, text) == [op |-> "send_message", chat |-> chat, text |-> text]

SendPrompt(chat, title, keyboard) ==
    [op |-> "send_message", chat |-> chat, text |-> "Select quality for", title |-> title,
     reply_markup |-> keyboard]

AnswerCallback(id, text) == [op |-> "answer_callback_query", id |-> id, text |-> text]

\* send_video addressed to a fixed chat instead of the chat of the callback.
SendVideo_FirstChat(chat, path, outcome) == [op |-> "send_video", chat |-> 1, file |-> path, outcome |-> outcome]

SendVideo(chat, path, outcome) == [op |-> "send_video", chat |-> chat, file |-> path, outcome |-> outcome]

ExtractInfo(url) == [op |-> "extract_info", url |-> url, download |-> FALSE]

Download(url, format_id) == [op |-> "extract_info", url |-> url, format |-> format_id, download |-> TRUE]

MSG_WELCOME == "Hello! Send me a YouTube link to download a video."
MSG_PROCESSING == "Processing your YouTube link, please wait..."
MSG_EXTRACT_FAILED == "[X] Failed to extract video formats. Please try again."
MSG_INVALID == "Invalid selection."
MSG_ACK == "Downloading video..."
MSG_DOWNLOADING == "[DL] Downloading video, please wait..."
MSG_SEND_FAILED == "[X] Failed to send video: "
MSG_DOWNLOAD_FAILED == "[X] Failed to download the video."
MSG_STOPPING == "Bot is stopping."

----------------------------------------------------------------------------
(* Startup: module-level code, lines 27-43 and 168-171 *)

NoEvent == [kind |-> "none", id |-> 0, log |-> <<>>]

Init ==
    /\ pc = "load_env"
    /\ BOT_TOKEN = "unread"
    /\ exitCode = 0
    /\ netRequests = 0
    /\ online = "unchecked"
    /\ handled = 0
    /\ last = NoEvent
    /\ issued = {}
    /\ downloads = [d \in {} |-> 0]
    /\ files = {}
    /\ threads = [t \in Threads |-> Idle]
    /\ content = [p \in Paths |-> NoContent]

\* A test for None alone, which lets an empty BOT_TOKEN through.
LoadEnv_NoneOnly ==
    /\ pc = "load_env"
    /\ \E tok \in {"None", "", "123:abc"} :
        /\ BOT_TOKEN' = tok
        /\ IF tok = "None"
           THEN pc' = "exited" /\ exitCode' = 1
           ELSE pc' = "check_internet" /\ exitCode' = exitCode
    /\ UNCHANGED <<netRequests, online, handled, last, issued, downloads, files, threads, content>>

\* os.getenv returns None for an unset variable; None and "" are both falsy.
LoadEnv ==
    /\ pc = "load_env"
    /\ \E tok \in {"None", "", "123:abc"} :
        /\ BOT_TOKEN' = tok
        /\ IF tok \in {"None", ""}
           THEN pc' = "exited" /\ exitCode' = 1
           ELSE pc' = "check_internet" /\ exitCode' = exitCode
    /\ UNCHANGED <<netRequests, online, handled, last, issued, downloads, files, threads, content>>

\* check_internet() and the test of its result.
CheckInternet ==
    /\ pc = "check_internet"
    /\ netRequests' = netRequests + 1
    /\ \E r \in {"response", "ConnectionError", "Exception"} :
        CASE r = "response"        -> online' = "True" /\ pc' = "main" /\ exitCode' = exitCode
          [] r = "ConnectionError" -> online' = "False" /\ pc' = "exited" /\ exitCode' = 1
          [] r = "Exception"       -> online' = "SystemExit" /\ pc' = "exited" /\ exitCode' = 2
    /\ UNCHANGED <<BOT_TOKEN, handled, last, issued, downloads, files, threads, content>>

\* bot.polling(none_stop=True, ...)
StartPolling ==
    /\ pc = "main"
    /\ pc' = "polling"
    /\ UNCHANGED <<BOT_TOKEN, exitCode, netRequests, online, handled, last, issued, downloads, files,
                 threads, content>>

KeyboardInterrupt ==
    /\ pc = "polling"
    /\ pc' = "stopped"
    /\ UNCHANGED <<BOT_TOKEN, exitCode, netRequests, online, handled, last, issued, downloads, files,
                 threads, content>>

----------------------------------------------------------------------------
(* Handlers.  The polling loop offers a text message to the message        *)
(* handlers in the order they were registered (send_welcome,              *)
(* receive_video_link, stop_bot) and runs the first whose filter accepts.  *)

CanHandle == pc = "polling" /\ handled < MaxEvents

Message(chat, text, handler, log) ==
    [kind |-> "message", id |-> handled + 1, chat |-> chat, text |-> text,
     handler |-> handler, log |-> log]

LinkMessage(chat, text, engine, log) ==
    [kind |-> "message", id |-> handled + 1, chat |-> chat, text |-> text,
     handler |-> "receive_video_link", engine |-> engine, log |-> log]

\* send_welcome
SendWelcome(chat, text) ==
    /\ CanHandle
    /\ IsCommand(text, Chars_start)
    /\ handled' = handled + 1
    /\ last' = Message(chat, text, "send_welcome", <<ReplyTo(chat, text, MSG_WELCOME)>>)
    /\ UNCHANGED <<pc, BOT_TOKEN, exitCode, netRequests, online, issued, downloads, files,
                 threads, content>>

\* The button made for one format by the loop of receive_video_link.
Button(fmt, url) ==
    [text |-> [quality |-> Get(fmt, "height", "NA"), ext |-> Get(fmt, "ext", "")],
     callback_data |-> callback_data(fmt.format_id, url)]

max_num_formats == 5

\* The loop over every format, without the slice.
Keyboard_All(formats, url) == [i \in 1..Len(formats) |-> Button(formats[i], url)]

Keyboard(formats, url) ==
    [i \in 1..Min(max_num_formats, Len(formats)) |-> Button(formats[i], url)]

\* receive_video_link, with the engine's answer to the metadata query.
ReceiveVideoLink(chat, text, engine) ==
    /\ CanHandle
    /\ ~IsCommand(text, Chars_start)
    /\ LinkFilter(text)
    /\ handled' = handled + 1
    /\ LET url == text
           res == extract_formats(engine)
           formats == res.formats
           failed == NotFormats(res)
           keyboard == Keyboard(formats, url)
           before == <<ReplyTo(chat, text, MSG_PROCESSING), ExtractInfo(url)>>
       IN  IF failed
           THEN /\ last' = LinkMessage(chat, text, engine,
                                   before \o <<ReplyTo(chat, text, MSG_EXTRACT_FAILED)>>)
                /\ issued' = issued
           ELSE /\ last' = LinkMessage(chat, text, engine,
                                   before \o <<SendPrompt(chat, res.title, keyboard)>>)
                /\ issued' = issued \cup
                      {[token |-> keyboard[i].callback_data,
                        format_id |-> formats[i].format_id, url |-> url] :
                          i \in DOMAIN keyboard}
    /\ UNCHANGED <<pc, BOT_TOKEN, exitCode, netRequests, online, downloads, files,
                 threads, content>>

\* stop_bot without its call of bot.stop_polling().
StopBot_KeepsPolling(chat, text) ==
    /\ CanHandle
    /\ ~IsCommand(text, Chars_start)
    /\ ~LinkFilter(text)
    /\ IsCommand(text, Chars_stop)
    /\ handled' = handled + 1
    /\ last' = Message(chat, text, "stop_bot", <<ReplyTo(chat, text, MSG_STOPPING)>>)
    /\ UNCHANGED <<pc, BOT_TOKEN, exitCode, netRequests, online, issued, downloads, files,
                 threads, content>>

\* stop_bot
StopBot(chat, text) ==
    /\ CanHandle
    /\ ~IsCommand(text, Chars_start)
    /\ ~LinkFilter(text)
    /\ IsCommand(text, Chars_stop)
    /\ handled' = handled + 1
    /\ last' = Message(chat, text, "stop_bot", <<ReplyTo(chat, text, MSG_STOPPING)>>)
    /\ pc' = "stopped"
    /\ UNCHANGED <<BOT_TOKEN, exitCode, netRequests, online, issued, downloads, files,
                 threads, content>>

\* A text message no handler's filter accepts.
NoHandler(chat, text) ==
    /\ CanHandle
    /\ ~IsCommand(text, Chars_start)
    /\ ~LinkFilter(text)
    /\ ~IsCommand(text, Chars_stop)
    /\ handled' = handled + 1
    /\ last' = Message(chat, text, "none", <<>>)
    /\ UNCHANGED <<pc, BOT_TOKEN, exitCode, netRequests, online, issued, downloads, files,
                 threads, content>>

\* download_youtube_video: None when the engine raises, else the path.
video_path(dl) == IF Raised(dl) THEN "None" ELSE dl.path

FilesAfter(dl) == IF ~Raised(dl) /\ dl.written THEN files \cup {dl.path} ELSE files

CountUp(bag, x) ==
    IF x \in DOMAIN bag THEN [bag EXCEPT ![x] = @ + 1] ELSE bag @@ (x :> 1)

\* A test of the returned path alone, without os.path.exists.
FileReady_NoExists(path, disk) == path /= "None"

\* "if video_path and os.path.exists(video_path)"
FileReady(path, disk) == path /= "None" /\ path \in disk

\* A length test that lets payloads of three or more parts through.
Malformed_TooFew(parts) == Len(parts) < 2

\* A handler that also turns down a payload it has already downloaded.
Malformed_Consumed(parts) ==
    Len(parts) /= 2 \/ \E d \in DOMAIN downloads : Split(d) = parts

\* "if len(data) != 2"
Malformed(parts) == Len(parts) /= 2

\* "format_id, url = data"
Unpack(parts) == [format_id |-> parts[1], url |-> parts[2]]

\* The same three calls with the acknowledgement after the download.
SelectionStart_AckLast(id, chat, url, format_id) ==
    <<SendMessage(chat, MSG_DOWNLOADING), Download(url, format_id), AnswerCallback(id, MSG_ACK)>>

\* The acknowledgement, the notice and the call of download_youtube_video.
SelectionStart(id, chat, url, format_id) ==
    <<AnswerCallback(id, MSG_ACK), SendMessage(chat, MSG_DOWNLOADING), Download(url, format_id)>>

\* The directory with os.remove(video_path) run after a successful send.
FilesAfterSend_Remove(disk, path, up) == IF up = "ok" THEN disk \ {path} ELSE disk

\* The downloads directory after the send: os.remove(video_path) is commented out.
FilesAfterSend(disk, path, up) == disk

\* callback_query, with the outcomes of the download and of the upload.
CallbackQuery(chat, data, dl, up) ==
    /\ CanHandle
    /\ handled' = handled + 1
    /\ LET id == handled + 1
           parts == Split(data)
           event(log) == [kind |-> "callback", id |-> id, chat |-> chat, data |-> data,
                          dl |-> dl, up |-> up, log |-> log]
       IN  IF Malformed(parts)
           THEN /\ last' = event(<<AnswerCallback(id, MSG_INVALID)>>)
                /\ UNCHANGED <<downloads, files>>
           ELSE LET sel == Unpack(parts)
                    path == video_path(dl)
                    disk == FilesAfter(dl)
                    start == SelectionStart(id, chat, sel.url, sel.format_id)
                IN  /\ downloads' = CountUp(downloads, data)
                    /\ IF FileReady(path, disk)
                       THEN /\ files' = FilesAfterSend(disk, path, up)
                            /\ IF up = "ok"
                               THEN last' = event(start \o <<SendVideo(chat, path, "sent")>>)
                               ELSE last' = event(start \o <<SendVideo(chat, path, "raised"),
                                                             SendMessage(chat, MSG_SEND_FAILED)>>)
                       ELSE /\ files' = disk
                            /\ last' = event(start \o <<SendMessage(chat, MSG_DOWNLOAD_FAILED)>>)
    /\ UNCHANGED <<pc, BOT_TOKEN, exitCode, netRequests, online, issued, threads, content>>

Payloads == {r.token : r \in issued} \cup StrayData

----------------------------------------------------------------------------
(* The whole program *)

Next ==
    \/ LoadEnv
    \/ CheckInternet
    \/ StartPolling
    \/ KeyboardInterrupt
    \/ \E chat \in Chats, text \in Texts : SendWelcome(chat, text)
    \/ \E chat \in Chats, text \in Texts, engine \in EngineInfos : ReceiveVideoLink(chat, text, engine)
    \/ \E chat \in Chats, text \in Texts : StopBot(chat, text)
    \/ \E chat \in Chats, text \in Texts : NoHandler(chat, text)
    \/ \E chat \in Chats, data \in Payloads, dl \in DownloadOutcomes, up \in UploadOutcomes :
          CallbackQuery(chat, data, dl, up)

Spec == Init /\ [][Next]_vars

----------------------------------------------------------------------------
(* The resolver and the keyboard on their own: one link message from a     *)
(* running bot, answered by the engine with any format list of up to       *)
(* MaxFormats entries.                                                     *)

InitResolver ==
    /\ pc = "polling"
    /\ BOT_TOKEN = "123:abc"
    /\ exitCode = 0
    /\ netRequests = 1
    /\ online = "True"
    /\ handled = 0
    /\ last = NoEvent
    /\ issued = {}
    /\ downloads = [d \in {} |-> 0]
    /\ files = {}
    /\ threads = [t \in Threads |-> Idle]
    /\ content = [p \in Paths |-> NoContent]

NextResolver ==
    \E engine \in WideInfos : handled = 0 /\ ReceiveVideoLink(1, Text_short, engine)

SpecResolver == InitResolver /\ [][NextResolver]_vars

----------------------------------------------------------------------------
(* The size of callback_data: one link message from a running bot whose    *)
(* URL is "https://www.youtube.com/" followed by 1 to MaxUrlTail           *)
(* characters.  The transport takes at most CALLBACK_DATA_MAX bytes of     *)
(* callback_data for a button.                                             *)

CALLBACK_DATA_MAX == 64

LongUrl(n) == Chars_https \o Chars_www \o Chars_youtube_com \o <<"/">> \o [i \in 1..n |-> "w"]

NextPayload ==
    \E chat \in Chats, n \in 1..MaxUrlTail, engine \in EngineInfos :
        handled = 0 /\ ReceiveVideoLink(chat, LongUrl(n), engine)

SpecPayload == InitResolver /\ [][NextPayload]_vars

----------------------------------------------------------------------------
(* Two calls of callback_query running at once, one per worker thread, on   *)
(* a running bot.  A call is cut where another thread can run in between:   *)
(* before the engine writes the output file, while it writes it, and        *)
(* between the return of download_youtube_video and open(video_path).       *)

ConcurrentPayloads ==
    {callback_data(Fmt_av.format_id, Text_short), callback_data(<<"2","2">>, Text_short), Data_bad}

\* callback_query up to the call of download_youtube_video.
CallbackBegin(t, chat, data) ==
    /\ CanHandle
    /\ threads[t].at = "idle"
    /\ handled' = handled + 1
    /\ LET id == handled + 1
           parts == Split(data)
       IN  IF Malformed(parts)
           THEN /\ threads' = [threads EXCEPT ![t] =
                      [Idle EXCEPT !.at = "done", !.chat = chat, !.data = data,
                                   !.log = <<AnswerCallback(id, MSG_INVALID)>>]]
                /\ UNCHANGED downloads
           ELSE LET sel == Unpack(parts)
                IN  /\ threads' = [threads EXCEPT ![t] =
                          [Idle EXCEPT !.at = "download", !.chat = chat, !.data = data,
                                       !.log = SelectionStart(id, chat, sel.url, sel.format_id)]]
                    /\ downloads' = CountUp(downloads, data)
    /\ UNCHANGED <<pc, BOT_TOKEN, exitCode, netRequests, online, last, issued, files, content>>

\* ydl.extract_info(url, download=True): the engine writes the bytes of the
\* requested format to the file prepare_filename names.
DownloadWrite(t, path) ==
    /\ threads[t].at = "download"
    /\ threads' = [threads EXCEPT ![t].at = "writing", ![t].path = path]
    /\ files' = files \cup {path}
    /\ content' = [content EXCEPT ![path] = [by |-> t, complete |-> FALSE]]
    /\ UNCHANGED <<pc, BOT_TOKEN, exitCode, netRequests, online, handled, last, issued, downloads>>

\* The engine has written the last byte; download_youtube_video returns the path.
DownloadReturn(t) ==
    /\ threads[t].at = "writing"
    /\ threads' = [threads EXCEPT ![t].at = "check"]
    /\ content' = [content EXCEPT ![threads[t].path] = [by |-> t, complete |-> TRUE]]
    /\ UNCHANGED <<pc, BOT_TOKEN, exitCode, netRequests, online, handled, last, issued, downloads, files>>

\* The engine finds the output file already there, writes nothing and
\* download_youtube_video returns its path.
DownloadSkip(t, path) ==
    /\ threads[t].at = "download"
    /\ path \in files
    /\ threads' = [threads EXCEPT ![t].at = "check", ![t].path = path]
    /\ UNCHANGED <<pc, BOT_TOKEN, exitCode, netRequests, online, handled, last, issued, downloads, files,
                   content>>

\* The engine raises; download_youtube_video returns None.
DownloadRaise(t) ==
    /\ threads[t].at \in {"download", "writing"}
    /\ threads' = [threads EXCEPT ![t].at = "check", ![t].path = "None"]
    /\ UNCHANGED <<pc, BOT_TOKEN, exitCode, netRequests, online, handled, last, issued, downloads, files,
                   content>>

\* callback_query from the test of video_path on: the file is opened and
\* streamed as it is at that moment.
CallbackEnd(t, up) ==
    /\ threads[t].at = "check"
    /\ LET th == threads[t]
       IN  IF FileReady(th.path, files)
           THEN /\ files' = FilesAfterSend(files, th.path, up)
                /\ threads' = [threads EXCEPT ![t].at = "done", ![t].sent = content[th.path],
                      ![t].log = IF up = "ok"
                                 THEN @ \o <<SendVideo(th.chat, th.path, "sent")>>
                                 ELSE @ \o <<SendVideo(th.chat, th.path, "raised"),
                                             SendMessage(th.chat, MSG_SEND_FAILED)>>]
           ELSE /\ files' = files
                /\ threads' = [threads EXCEPT ![t].at = "done",
                      ![t].log = @ \o <<SendMessage(th.chat, MSG_DOWNLOAD_FAILED)>>]
    /\ UNCHANGED <<pc, BOT_TOKEN, exitCode, netRequests, online, handled, last, issued, downloads, content>>

NextConcurrent ==
    \/ \E t \in Threads, chat \in Chats, data \in ConcurrentPayloads : CallbackBegin(t, chat, data)
    \/ \E t \in Threads, path \in Paths : DownloadWrite(t, path)
    \/ \E t \in Threads : DownloadReturn(t)
    \/ \E t \in Threads, path \in Paths : DownloadSkip(t, path)
    \/ \E t \in Threads : DownloadRaise(t)
    \/ \E t \in Threads, up \in UploadOutcomes : CallbackEnd(t, up)

SpecConcurrent == InitResolver /\ [][NextConcurrent]_vars

----------------------------------------------------------------------------
(* Vocabulary of the properties *)

SepCount(s) == Cardinality({i \in 1..Len(s) : s[i] = Sep})

Handles == handled' = handled + 1

InLog(entry, log) == \E i \in DOMAIN log : log[i] = entry

IsPrompt(entry) == entry.op = "send_message" /\ "reply_markup" \in DOMAIN entry

IsMetadataQuery(entry) == entry.op = "extract_info" /\ ~entry.download

IsDownload(entry) == entry.op = "extract_info" /\ entry.download

IssuedTokens == {r.token : r \in issued}

----------------------------------------------------------------------------
\* C1: a callback whose payload holds zero or more than one '|' is answered
\* with "Invalid selection." and nothing else happens: no download call, no
\* chat message, no video, no file written, and the bot keeps polling.
C1_MalformedSelection ==
    [][(Handles /\ last'.kind = "callback" /\ SepCount(last'.data) /= 1)
         => /\ last'.log = <<AnswerCallback(last'.id, MSG_INVALID)>>
            /\ downloads' = downloads
            /\ files' = files
            /\ pc' = "polling"]_vars

C1_Witness ==
    /\ last.kind = "callback"
    /\ last.data \in IssuedTokens
    /\ SepCount(last.data) > 1
    /\ last.log = <<AnswerCallback(last.id, MSG_INVALID)>>

\* C2: a token built by receive_video_link from a format id and a URL that
\* hold no '|' splits back into exactly that pair, and a callback carrying
\* it calls the download with that URL and that format id.
C2_TokenRoundTrip ==
    \A r \in issued :
        (~HasSep(r.format_id) /\ ~HasSep(r.url))
            => /\ Split(r.token) = <<r.format_id, r.url>>
               /\ (last.kind = "callback" /\ last.data = r.token)
                     => /\ InLog(Download(r.url, r.format_id), last.log)
                        /\ \A i \in DOMAIN last.log :
                             IsDownload(last.log[i]) => last.log[i] = Download(r.url, r.format_id)

C2_Witness ==
    /\ last.kind = "callback"
    /\ \E r \in issued :
        /\ r.token = last.data
        /\ ~HasSep(r.format_id) /\ ~HasSep(r.url)
        /\ InLog(Download(r.url, r.format_id), last.log)

\* C3: when the resolver fails or returns an empty list, the link handler
\* replies with the extraction-failure notice to that message as its last
\* act, and sends no keyboard and issues no token.
ResolverFailed(engine) == Raised(engine) \/ extract_formats(engine).formats = <<>>

C3_ExtractionFailure ==
    [][(Handles /\ last'.kind = "message" /\ last'.handler = "receive_video_link"
          /\ ResolverFailed(last'.engine))
         => /\ last'.log = <<ReplyTo(last'.chat, last'.text, MSG_PROCESSING),
                             ExtractInfo(last'.text),
                             ReplyTo(last'.chat, last'.text, MSG_EXTRACT_FAILED)>>
            /\ issued' = issued
            /\ downloads' = downloads
            /\ files' = files
            /\ pc' = "polling"]_vars

C3_Witness ==
    /\ last.kind = "message"
    /\ last.handler = "receive_video_link"
    /\ ~Raised(last.engine)
    /\ Get(last.engine, "formats", <<>>) /= <<>>
    /\ ResolverFailed(last.engine)
    /\ last.log[Len(last.log)] = ReplyTo(last.chat, last.text, MSG_EXTRACT_FAILED)

\* C4: whatever the outcomes of resolution, download and upload, the handler
\* ends with the bot still polling and no exit code set, and each failure is
\* reported in the chat of the update: a failed resolution by the extraction
\* notice, a failed download (engine error or file absent) by the download
\* notice, a failed upload by the send notice.  The process exits with an
\* error code only from the startup steps, before any update is handled.
DownloadFailed(dl, disk) == Raised(dl) \/ dl.path \notin disk

C4_ErrorsReported ==
    [][/\ Handles =>
            /\ exitCode' = 0
            /\ pc' = "polling" \/ (pc' = "stopped" /\ last'.kind = "message" /\ last'.handler = "stop_bot")
            /\ (last'.kind = "message" /\ last'.handler = "receive_video_link"
                  /\ ResolverFailed(last'.engine))
                 => InLog(ReplyTo(last'.chat, last'.text, MSG_EXTRACT_FAILED), last'.log)
            /\ (last'.kind = "callback" /\ SepCount(last'.data) = 1
                  /\ DownloadFailed(last'.dl, files'))
                 => InLog(SendMessage(last'.chat, MSG_DOWNLOAD_FAILED), last'.log)
            /\ (last'.kind = "callback" /\ SepCount(last'.data) = 1
                  /\ ~DownloadFailed(last'.dl, files') /\ last'.up = "raise")
                 => InLog(SendMessage(last'.chat, MSG_SEND_FAILED), last'.log)
       /\ (pc' = "exited" /\ pc /= "exited")
            => (pc \in {"load_env", "check_internet"} /\ handled = 0)]_vars

C4_Witness ==
    /\ pc = "polling"
    /\ handled >= 2
    /\ last.kind = "callback"
    /\ SepCount(last.data) = 1
    /\ ~DownloadFailed(last.dl, files)
    /\ last.up = "raise"
    /\ last.log[Len(last.log)] = SendMessage(last.chat, MSG_SEND_FAILED)

\* C5: the bot polls (and handles updates) only with a BOT_TOKEN found and
\* check_internet returned True.  A missing or empty BOT_TOKEN exits with
\* code 1 before any connectivity request; a ConnectionError exits with 1;
\* any other error in the check exits with 2; none of them handles an update.
C5_StartupGating ==
    /\ (pc \in {"polling", "stopped"} \/ handled > 0)
         => (BOT_TOKEN \notin {"unread", "None", ""} /\ online = "True" /\ exitCode = 0)
    /\ BOT_TOKEN \in {"None", ""}
         => (pc = "exited" /\ exitCode = 1 /\ netRequests = 0 /\ handled = 0)
    /\ online = "False" => (pc = "exited" /\ exitCode = 1 /\ handled = 0)
    /\ online = "SystemExit" => (pc = "exited" /\ exitCode = 2 /\ handled = 0)

C5_Witness ==
    /\ pc = "exited"
    /\ BOT_TOKEN = ""
    /\ exitCode = 1
    /\ netRequests = 0

\* C6: a /stop command is answered with "Bot is stopping." and ends the
\* polling; once stop_bot has run, no further update is handled.
C6_StopTerminates ==
    [][/\ (Handles /\ last'.kind = "message" /\ IsCommand(last'.text, Chars_stop))
            => /\ last'.log = <<ReplyTo(last'.chat, last'.text, MSG_STOPPING)>>
               /\ pc' = "stopped"
       /\ (last.kind = "message" /\ last.handler = "stop_bot")
            => UNCHANGED <<handled, last, issued, downloads, files>>]_vars

C6_Witness ==
    /\ pc = "stopped"
    /\ last.kind = "message"
    /\ last.handler = "stop_bot"
    /\ last.log = <<ReplyTo(last.chat, last.text, MSG_STOPPING)>>
    /\ handled = 2
    /\ issued /= {}

\* C7 as claimed: every format the resolver returns, and so every button
\* of a prompt, has both a video codec and an audio codec present, also when
\* the engine leaves a codec field out.
CodecPresent(f, k) == k \in DOMAIN f /\ f[k] /= "none"

ResolvedFormats == extract_formats(last.engine).formats

IsLinkEvent == last.kind = "message" /\ last.handler = "receive_video_link"

NoneCodec(f) ==
    ("vcodec" \in DOMAIN f /\ f.vcodec = "none") \/ ("acodec" \in DOMAIN f /\ f.acodec = "none")

FieldLeftOut(f) == "vcodec" \notin DOMAIN f \/ "acodec" \notin DOMAIN f

EngineFormats == Get(last.engine, "formats", <<>>)

KeptInOrder == SelectSeq(EngineFormats, LAMBDA f : ~NoneCodec(f))

C8_FirstFiveInOrder ==
    (IsLinkEvent /\ ~Raised(last.engine) /\ KeptInOrder /= <<>>)
        => /\ ResolvedFormats = KeptInOrder
           /\ Len(last.log) = 3
           /\ IsPrompt(last.log[3])
           /\ LET buttons == last.log[3].reply_markup
                  n == Len(KeptInOrder)
              IN  /\ Len(buttons) = (IF n <= 5 THEN n ELSE 5)
                  /\ \A i \in DOMAIN buttons :
                       buttons[i].callback_data
                         = KeptInOrder[i].format_id \o <<"|">> \o last.text

C8_Witness ==
    /\ IsLinkEvent
    /\ ~Raised(last.engine)
    /\ Len(KeptInOrder) > 5
    /\ KeptInOrder[1] /= KeptInOrder[2]
    /\ Len(last.log) = 3
    /\ IsPrompt(last.log[3])
    /\ Len(last.log[3].reply_markup) = 5

\* C9: a text message the classifier rejects causes no metadata query and no
\* prompt; a metadata query is made only while handling a text message the
\* classifier accepts, and at most once per message.
MetadataQueries(log) == {i \in DOMAIN log : IsMetadataQuery(log[i])}

C9_RejectedNoResolver ==
    /\ (last.kind = "message" /\ ~is_youtube_link(last.text))
         => \A i \in DOMAIN last.log : ~IsMetadataQuery(last.log[i]) /\ ~IsPrompt(last.log[i])
    /\ MetadataQueries(last.log) /= {}
         => /\ last.kind = "message"
            /\ is_youtube_link(last.text)
            /\ Cardinality(MetadataQueries(last.log)) = 1

C9_Witness ==
    /\ last.kind = "message"
    /\ last.text = Text_unanchored
    /\ ~is_youtube_link(last.text)
    /\ last.log = <<>>
    /\ issued /= {}

\* C10 as claimed: no token issued in a prompt ever starts more than one
\* download.
C10_ConsumedOnce ==
    \A t \in IssuedTokens : t \in DOMAIN downloads => downloads[t] <= 1

\* C10 as amended: a token is not used up.  Every callback carrying a payload
\* with exactly one '|' starts exactly one download, whether or not the same
\* payload was selected before, so a second selection of a token starts a
\* second download.
DownloadsOf(data) == IF data \in DOMAIN downloads THEN downloads[data] ELSE 0

C10_EverySelectionDownloads ==
    [][(Handles /\ last'.kind = "callback" /\ SepCount(last'.data) = 1)
         => /\ downloads'[last'.data] = DownloadsOf(last'.data) + 1
            /\ Cardinality({i \in DOMAIN last'.log : IsDownload(last'.log[i])}) = 1]_vars

C10_Witness ==
    /\ last.kind = "callback"
    /\ last.data \in IssuedTokens
    /\ DownloadsOf(last.data) = 2
    /\ Cardinality({i \in DOMAIN last.log : IsDownload(last.log[i])}) = 1

\* C11: every callback_data of every button of a prompt the link handler
\* sends, whatever the accepted URL and the format id, is at most
\* CALLBACK_DATA_MAX characters long.
C11_TokensWithinCeiling ==
    /\ \A r \in issued : Len(r.token) <= CALLBACK_DATA_MAX
    /\ \A e \in DOMAIN last.log :
         IsPrompt(last.log[e])
            => \A b \in DOMAIN last.log[e].reply_markup :
                 Len(last.log[e].reply_markup[b].callback_data) <= CALLBACK_DATA_MAX

C13_AnyIssuedChoice ==
    \A r \in issued :
        (last.kind = "callback" /\ last.data = r.token)
            => InLog(Download(r.url, r.format_id), last.log)

\* C15: every call a handler makes is addressed to the update it handles:
\* replies, messages, prompts and videos go to the chat of the update, a
\* reply quotes the message of the update, and a callback answer carries the
\* id of the callback.
C15_ConversationIsolation ==
    \A i \in DOMAIN last.log :
        LET e == last.log[i]
        IN  /\ "chat" \in DOMAIN e => e.chat = last.chat
            /\ e.op = "reply_to" => (last.kind = "message" /\ e.to = last.text)
            /\ e.op = "answer_callback_query" => (last.kind = "callback" /\ e.id = last.id)

C15_Witness ==
    /\ handled = 3
    /\ last.kind = "callback"
    /\ last.chat = 2
    /\ last.data \in IssuedTokens
    /\ ~Raised(last.dl)
    /\ InLog(SendVideo(2, last.dl.path, "sent"), last.log)

\* C16: no step removes a file from the downloads directory, and the file a
\* handler tried to send is on disk after the handler, whether the upload
\* succeeded or raised.
C16_FilesOnlyGrow ==
    [][/\ files \subseteq files'
       /\ (Handles /\ last'.kind = "callback")
            => \A i \in DOMAIN last'.log :
                 last'.log[i].op = "send_video" => last'.log[i].file \in files']_vars

C16_Witness ==
    /\ last.kind = "callback"
    /\ Cardinality(files) = 2
    /\ last.up = "raise"
    /\ InLog(SendVideo(last.chat, last.dl.path, "raised"), last.log)
    /\ last.dl.path \in files

\* C14: with two callback_query calls running at once, a video a call has sent
\* holds the complete bytes written by that call's own download, whatever
\* paths the two downloads resolve to.
C14_OwnContent ==
    \A t \in Threads :
        (threads[t].at = "done" /\ InLog(SendVideo(threads[t].chat, threads[t].path, "sent"), threads[t].log))
            => threads[t].sent = [by |-> t, complete |-> TRUE]

====
